---- MODULE Spec2Model ----
(***************************************************************************)
(* State-machine model of the TimeTracker backend (timetracker.py): the    *)
(* SQLite store (projects, sessions, config), the Project and Session      *)
(* models, and the TimeTracker controller.                                 *)
(*                                                                         *)
(* Tables are sets of rows.  Timestamps are integer clock readings,        *)
(* counted in ticks of 1/TicksPerSecond second from the first reading: the *)
(* code stores datetime.now(), orders rows by it and subtracts one from    *)
(* another.  datetime.now() is the host's local wall clock; nothing in the *)
(* code makes successive readings non-decreasing, so the clock may also    *)
(* step back (clockBack records that it has).                              *)
(***************************************************************************)
EXTENDS Integers, FiniteSets, Sequences, TLC

\* ------------------------------------------------------------------ bounds
MaxTime == 1
MaxProjects == 2
MaxSessions == 2
MaxInstant == 3
MaxFormat == 125

\* ------------------------------------------------------------ value spaces
\* SQL NULL (sessions.end_time is the only nullable column the model reads).
NULL == -1
\* Python's None, for an argument left out or a key with no value.
None == "<None>"
\* Resolution of the model's clock: datetime.now() is read in ticks of half
\* a second, so that a difference of two readings need not be whole seconds.
TicksPerSecond == 2
Names == {"A", "B"}
Procs == {1, 2}
KEY_CURRENT_PROJECT == "current_project_id"

VARIABLES
    projects,       \* table projects: rows [id, name, summary]
    nextProjectId,  \* AUTOINCREMENT counter of projects.id
    sessions,       \* table sessions: rows [id, project_id, start_time, end_time]
    nextSessionId,  \* AUTOINCREMENT counter of sessions.id
    config,         \* table config: rows [key, value]
    now,            \* what datetime.now() returns in this state
    clockBack,      \* history: the clock has stepped back at least once
    last,           \* history: the last operation called and what it returned
    pc,             \* per process: position inside start_project (SpecConc)
    loc             \* per process: the locals of start_project (SpecConc)

store == <<projects, nextProjectId, sessions, nextSessionId, config>>
clock == <<now, clockBack>>
procs == <<pc, loc>>
vars == <<projects, nextProjectId, sessions, nextSessionId, config, now,
          clockBack, last, pc, loc>>

\* --------------------------------------------------------------- the clock
\* What datetime.now() may return when the previous reading was t.
Readings(t) == {r \in {t - 1, t, t + 1} : r >= 0 /\ r <= MaxTime}

\* ------------------------------------------------------------ Project model
\* Project.get_by_name: the rows SELECT ... WHERE name = ? returns (0 or 1).
get_by_name(P, name) == {p \in P : p.name = name}

\* Project.get_by_id: the rows SELECT ... WHERE id = ? returns (0 or 1).
get_by_id(P, project_id) == {p \in P : p.id = project_id}

\* Mutant: the name column without its UNIQUE constraint.
NameTaken_Never(P, name) == FALSE

\* UNIQUE(name): would INSERT INTO projects raise sqlite3.IntegrityError?
NameTaken(P, name) == \E p \in P : p.name = name

\* Project.create, the INSERT succeeding.
InsertProject(P, id, name, summary) ==
    P \cup {[id |-> id, name |-> name, summary |-> summary]}

\* Mutant: the DELETE without its WHERE clause.
DeleteProjectRow_All(P, project_id) == {}

\* DELETE FROM projects WHERE id = ?
DeleteProjectRow(P, project_id) == {p \in P : p.id # project_id}

\* Mutant: the connection without PRAGMA foreign_keys = ON (no cascade).
CascadeSessions_Off(S, project_id) == S

\* Mutant: a cascade that spares the rows with a NULL end_time.
CascadeSessions_KeepOpen(S, project_id) ==
    {s \in S : s.project_id # project_id \/ s.end_time = NULL}

\* FOREIGN KEY (project_id) REFERENCES projects(id) ON DELETE CASCADE, with
\* PRAGMA foreign_keys = ON: the session rows that survive the delete.
CascadeSessions(S, project_id) == {s \in S : s.project_id # project_id}

\* ------------------------------------------------------------ Session model
OpenSessions(S) == {s \in S : s.end_time = NULL}

\* Mutant: the query written with "end_time = NULL", which matches no row.
MostRecentOpen_EqNull(S) == {}

\* Mutant: the query written with ORDER BY start_time ASC.
MostRecentOpen_Oldest(S) ==
    {s \in {o \in S : o.end_time = NULL} :
        \A t \in {o \in S : o.end_time = NULL} : s.start_time <= t.start_time}

\* SELECT ... WHERE end_time IS NULL ORDER BY start_time DESC LIMIT 1: the
\* rows the query may return (SQLite leaves the order of ties open).
MostRecentOpen(S) ==
    {s \in OpenSessions(S) :
        \A t \in OpenSessions(S) : t.start_time <= s.start_time}

\* Session.start, the INSERT: a new row with end_time NULL.
InsertSession(S, id, project_id, t) ==
    S \cup {[id |-> id, project_id |-> project_id, start_time |-> t,
             end_time |-> NULL]}

\* Mutant: the UPDATE never reaches the table.
UpdateEndTime_Noop(S, session_id, t) == S

\* Mutant: the UPDATE without its WHERE clause.
UpdateEndTime_AllRows(S, session_id, t) == {[s EXCEPT !.end_time = t] : s \in S}

\* Mutant: the end time is a clock reading taken once, when the module was
\* loaded (a default argument), not at the call.
UpdateEndTime_StaleClock(S, session_id, t) ==
    {IF s.id = session_id THEN [s EXCEPT !.end_time = 0] ELSE s : s \in S}

\* Session.stop, the UPDATE sessions SET end_time = ? WHERE id = ?
UpdateEndTime(S, session_id, t) ==
    {IF s.id = session_id THEN [s EXCEPT !.end_time = t] ELSE s : s \in S}

\* Session.get_sessions_for_project without a date range.
get_sessions_for_project(S, project_id) == {s \in S : s.project_id = project_id}

\* int(x) of Python for x = n / d, d > 0: the fraction is dropped, toward 0.
Trunc(n, d) == IF n >= 0 THEN n \div d ELSE -((-n) \div d)

\* Mutant: the difference rounded half up to whole seconds, not truncated.
ElapsedOfRow_Rounded(S, session_id, t) ==
    IF \A s \in S : s.id # session_id
    THEN 0
    ELSE LET row == CHOOSE s \in S : s.id = session_id
             end == IF row.end_time # NULL THEN row.end_time ELSE t
         IN  Trunc(2 * (end - row.start_time) + TicksPerSecond,
                   2 * TicksPerSecond)

\* Mutant: the sub-second part of the difference read (timedelta.microseconds)
\* where total_seconds() was meant.
ElapsedOfRow_SubSecond(S, session_id, t) ==
    IF \A s \in S : s.id # session_id
    THEN 0
    ELSE LET row == CHOOSE s \in S : s.id = session_id
             end == IF row.end_time # NULL THEN row.end_time ELSE t
         IN  (end - row.start_time) % TicksPerSecond

\* Session.get_elapsed_seconds from its second SELECT on: 0 for an id with no
\* row, else int((end - start).total_seconds()) with end = end_time, or the
\* clock reading t when end_time is NULL.
ElapsedOfRow(S, session_id, t) ==
    IF \A s \in S : s.id # session_id
    THEN 0
    ELSE LET row == CHOOSE s \in S : s.id = session_id
             end == IF row.end_time # NULL THEN row.end_time ELSE t
         IN  Trunc(end - row.start_time, TicksPerSecond)

\* Session.get_elapsed_seconds(session_id), session_id = NULL for the call
\* with no id: the values the call may return at clock reading t (more than
\* one only when get_active has a tie to break).
get_elapsed_seconds(S, session_id, t) ==
    IF session_id # NULL
    THEN {ElapsedOfRow(S, session_id, t)}
    ELSE IF MostRecentOpen(S) = {}
         THEN {0}
         ELSE {ElapsedOfRow(S, active.id, t) : active \in MostRecentOpen(S)}

\* ------------------------------------------------------------------- Config
\* Text that the code builds or takes apart is a sequence of characters.
DigitChars == <<"0", "1", "2", "3", "4", "5", "6", "7", "8", "9">>

\* str(n) for n >= 0: the decimal digits, most significant first.
RECURSIVE Decimal(_)
Decimal(n) ==
    IF n < 10
    THEN <<DigitChars[n + 1]>>
    ELSE Decimal(n \div 10) \o <<DigitChars[(n % 10) + 1]>>

\* Mutant: a plain INSERT into a config table without its PRIMARY KEY.
ConfigSet_Append(C, key, value) == C \cup {[key |-> key, value |-> value]}

\* Config.set: INSERT OR REPLACE INTO config (key, value).
ConfigSet(C, key, value) ==
    {c \in C : c.key # key} \cup {[key |-> key, value |-> value]}

\* --------------------------------------------------------------------- Init
NoOp == [op |-> "none", result |-> ""]

\* The locals of a start_project call: the project found, the session
\* Session.stop selected, and (history) the sessions counter and the number
\* of open sessions when Session.stop ran its SELECT.
NoLocals == [project_id |-> 0, session_id |-> 0, seenNext |-> 0, seenOpen |-> 0]

Init ==
    /\ projects = {}
    /\ nextProjectId = 1
    /\ sessions = {}
    /\ nextSessionId = 1
    /\ config = {}
    /\ now = 0
    /\ clockBack = FALSE
    /\ last = NoOp
    /\ pc = [p \in Procs |-> "idle"]
    /\ loc = [p \in Procs |-> NoLocals]

\* --------------------------------------------------------- clock transitions
Tick ==
    /\ now < MaxTime
    /\ now' = now + 1
    /\ UNCHANGED <<store, clockBack, last, procs>>

ClockStepBack ==
    /\ now > 0
    /\ now' = now - 1
    /\ clockBack' = TRUE
    /\ UNCHANGED <<store, last, procs>>

\* ------------------------------------------------------- Session operations
\* Mutant: Session.stop() with its UPDATE on "WHERE end_time IS NULL", which
\* closes every open session.
StopActive_AllOpen(S, t) ==
    {[sessions |-> {IF s.end_time = NULL THEN [s EXCEPT !.end_time = t] ELSE s :
                      s \in S},
      stopped |-> \E s \in S : s.end_time = NULL]}

\* Mutant: Session.stop() that stops nothing.
StopActive_Skip(S, t) == {[sessions |-> S, stopped |-> FALSE]}

\* Session.stop(None): the session tables the call may leave behind when the
\* clock reads t, paired with the value it returns.
StopActive(S, t) ==
    IF MostRecentOpen(S) = {}
    THEN {[sessions |-> S, stopped |-> FALSE]}
    ELSE {[sessions |-> UpdateEndTime(S, a.id, t), stopped |-> TRUE] :
            a \in MostRecentOpen(S)}

\* Session.stop(session_id): the UPDATE runs whatever the row's end_time is;
\* the call returns cursor.rowcount > 0.
StopById(S, session_id, t) ==
    [sessions |-> UpdateEndTime(S, session_id, t),
     stopped |-> \E s \in S : s.id = session_id]

\* ----------------------------------------------------- Controller operations
Result(op, result) == [op |-> op, result |-> result]

\* Project.create(name, summary), as the CLI's "project add" calls it.
CreateProject(name, summary) ==
    /\ nextProjectId <= MaxProjects
    /\ IF NameTaken(projects, name)
       THEN /\ last' = Result("create", "already_exists")
            /\ UNCHANGED <<projects, nextProjectId>>
       ELSE /\ projects' = InsertProject(projects, nextProjectId, name, summary)
            /\ nextProjectId' = nextProjectId + 1
            /\ last' = Result("create", "ok")
    /\ UNCHANGED <<sessions, nextSessionId, config, clock, procs>>

\* "project delete <name>": Project.get_by_name, then Project.delete(id).
DeleteProject(name) ==
    /\ IF get_by_name(projects, name) = {}
       THEN /\ last' = Result("delete", "not_found")
            /\ UNCHANGED <<projects, sessions>>
       ELSE \E p \in get_by_name(projects, name) :
            /\ projects' = DeleteProjectRow(projects, p.id)
            /\ sessions' = CascadeSessions(sessions, p.id)
            /\ last' = Result("delete", "ok")
    /\ UNCHANGED <<nextProjectId, nextSessionId, config, clock, procs>>

\* Mutant: start_project that stops the active session before it looks the
\* project up.
StartTracking_StopFirst(name) ==
    /\ nextSessionId <= MaxSessions
    /\ \E st \in StopActive(sessions, now) :
       IF get_by_name(projects, name) = {}
       THEN /\ sessions' = st.sessions
            /\ last' = Result("start_project", "project_not_found")
            /\ UNCHANGED <<nextSessionId, config, clock>>
       ELSE \E p \in get_by_name(projects, name) :
            \E t2 \in Readings(now) :
            /\ now' = t2
            /\ clockBack' = (clockBack \/ t2 < now)
            /\ sessions' = InsertSession(st.sessions, nextSessionId, p.id, t2)
            /\ nextSessionId' = nextSessionId + 1
            /\ config' = ConfigSet(config, KEY_CURRENT_PROJECT,
                                  Decimal(p.id))
            /\ last' = Result("start_project", "ok")
    /\ UNCHANGED <<projects, nextProjectId, procs>>

\* Mutant: start_project that leaves the named project's own open session
\* running instead of stopping it and starting a new one.
StartTracking_Resume(name) ==
    /\ nextSessionId <= MaxSessions
    /\ IF get_by_name(projects, name) = {}
       THEN /\ last' = Result("start_project", "project_not_found")
            /\ UNCHANGED <<sessions, nextSessionId, config, clock>>
       ELSE \E p \in get_by_name(projects, name) :
            IF \E a \in MostRecentOpen(sessions) : a.project_id = p.id
            THEN /\ config' = ConfigSet(config, KEY_CURRENT_PROJECT,
                                        Decimal(p.id))
                 /\ last' = Result("start_project", "ok")
                 /\ UNCHANGED <<sessions, nextSessionId, clock>>
            ELSE \E st \in StopActive(sessions, now) :
                 \E t2 \in Readings(now) :
                 /\ now' = t2
                 /\ clockBack' = (clockBack \/ t2 < now)
                 /\ sessions' = InsertSession(st.sessions, nextSessionId,
                                              p.id, t2)
                 /\ nextSessionId' = nextSessionId + 1
                 /\ config' = ConfigSet(config, KEY_CURRENT_PROJECT,
                                        Decimal(p.id))
                 /\ last' = Result("start_project", "ok")
    /\ UNCHANGED <<projects, nextProjectId, procs>>

\* TimeTracker.start_project(project_name).  The clock is read once by
\* Session.stop and again by Session.start.
StartTracking(name) ==
    /\ nextSessionId <= MaxSessions
    /\ IF get_by_name(projects, name) = {}
       THEN /\ last' = Result("start_project", "project_not_found")
            /\ UNCHANGED <<sessions, nextSessionId, config, clock>>
       ELSE \E p \in get_by_name(projects, name) :
            \E st \in StopActive(sessions, now) :
            \E t2 \in Readings(now) :
            /\ now' = t2
            /\ clockBack' = (clockBack \/ t2 < now)
            /\ IF get_by_id(projects, p.id) = {}
               THEN /\ sessions' = st.sessions
                    /\ last' = Result("start_project", "project_not_found")
                    /\ UNCHANGED <<nextSessionId, config>>
               ELSE /\ sessions' = InsertSession(st.sessions, nextSessionId, p.id, t2)
                    /\ nextSessionId' = nextSessionId + 1
                    /\ config' = ConfigSet(config, KEY_CURRENT_PROJECT,
                                  Decimal(p.id))
                    /\ last' = Result("start_project", "ok")
    /\ UNCHANGED <<projects, nextProjectId, procs>>

\* Mutant: stop_project without the early return for "no active session".
StopTracking_NoGuard ==
    /\ \E st \in StopActive(sessions, now) :
        /\ sessions' = st.sessions
        /\ last' = Result("stop_project", "stopped")
    /\ UNCHANGED <<projects, nextProjectId, nextSessionId, config, clock, procs>>

\* TimeTracker.stop_project().
StopTracking ==
    /\ IF MostRecentOpen(sessions) = {}
       THEN /\ last' = Result("stop_project", "no_active_session")
            /\ UNCHANGED sessions
       ELSE \E active \in MostRecentOpen(sessions) :
            /\ sessions' = StopById(sessions, active.id, now).sessions
            /\ IF get_by_id(projects, active.project_id) = {}
               THEN last' = Result("stop_project", "error")
               ELSE last' = Result("stop_project", "stopped")
    /\ UNCHANGED <<projects, nextProjectId, nextSessionId, config, clock, procs>>

\* TimeTracker.get_status(): the dicts the call may return on tables P, S at
\* clock reading t.  "error" stands for the TypeError of project['name'] on a
\* session whose project row is missing.
get_status(P, S, t) ==
    IF MostRecentOpen(S) = {}
    THEN {[status |-> "idle", active_project |-> None,
           active_project_id |-> NULL, elapsed_seconds |-> 0,
           session_id |-> NULL]}
    ELSE {IF get_by_id(P, active.project_id) = {}
          THEN [status |-> "error", active_project |-> None,
                active_project_id |-> NULL, elapsed_seconds |-> 0,
                session_id |-> NULL]
          ELSE LET project == CHOOSE p \in P : p.id = active.project_id
               IN  [status |-> "tracking", active_project |-> project.name,
                    active_project_id |-> project.id,
                    elapsed_seconds |-> ElapsedOfRow(S, active.id, t),
                    session_id |-> active.id]
          : active \in MostRecentOpen(S)}

\* TimeTracker.get_status() called.
Status ==
    /\ \E r \in get_status(projects, sessions, now) :
          last' = Result("get_status", r.status)
    /\ UNCHANGED <<store, clock, procs>>

\* ------------------------------------------- Session Tracker, called directly
\* Mutant: Session.start that closes the active session before its INSERT.
SessionStart_StopFirst(project_id) ==
    /\ nextSessionId <= MaxSessions
    /\ IF get_by_id(projects, project_id) = {}
       THEN /\ last' = Result("start", "project_not_found")
            /\ UNCHANGED <<sessions, nextSessionId, config>>
       ELSE \E st \in StopActive(sessions, now) :
            /\ sessions' = InsertSession(st.sessions, nextSessionId,
                                         project_id, now)
            /\ nextSessionId' = nextSessionId + 1
            /\ config' = ConfigSet(config, KEY_CURRENT_PROJECT,
                                  Decimal(project_id))
            /\ last' = Result("start", "ok")
    /\ UNCHANGED <<projects, nextProjectId, clock, procs>>

\* Mutant: Session.start without the get_by_id check, saving the project id
\* before the INSERT is refused by the foreign key.
SessionStart_NoCheck(project_id) ==
    /\ nextSessionId <= MaxSessions
    /\ IF get_by_id(projects, project_id) = {}
       THEN /\ last' = Result("start", "integrity_error")
            /\ config' = ConfigSet(config, KEY_CURRENT_PROJECT,
                                  Decimal(project_id))
            /\ UNCHANGED <<sessions, nextSessionId>>
       ELSE /\ sessions' = InsertSession(sessions, nextSessionId, project_id, now)
            /\ nextSessionId' = nextSessionId + 1
            /\ config' = ConfigSet(config, KEY_CURRENT_PROJECT,
                                  Decimal(project_id))
            /\ last' = Result("start", "ok")
    /\ UNCHANGED <<projects, nextProjectId, clock, procs>>

\* Session.start(project_id).
SessionStart(project_id) ==
    /\ nextSessionId <= MaxSessions
    /\ IF get_by_id(projects, project_id) = {}
       THEN /\ last' = Result("start", "project_not_found")
            /\ UNCHANGED <<sessions, nextSessionId, config>>
       ELSE /\ sessions' = InsertSession(sessions, nextSessionId, project_id, now)
            /\ nextSessionId' = nextSessionId + 1
            /\ config' = ConfigSet(config, KEY_CURRENT_PROJECT,
                                  Decimal(project_id))
            /\ last' = Result("start", "ok")
    /\ UNCHANGED <<projects, nextProjectId, clock, procs>>

\* Session.stop() with no id.
SessionStopActive ==
    /\ \E st \in StopActive(sessions, now) :
        /\ sessions' = st.sessions
        /\ last' = Result("stop", IF st.stopped THEN "true" ELSE "false")
    /\ UNCHANGED <<projects, nextProjectId, nextSessionId, config, clock, procs>>

\* Session.stop(session_id).
SessionStop(session_id) ==
    /\ sessions' = StopById(sessions, session_id, now).sessions
    /\ last' = Result("stop",
                      IF StopById(sessions, session_id, now).stopped
                      THEN "true" ELSE "false")
    /\ UNCHANGED <<projects, nextProjectId, nextSessionId, config, clock, procs>>


\* --------------------------------- start_project, one SQL statement at a time
\* Each process owns a TimeTracker on the same database file; every statement
\* is committed on its own and nothing else orders the two processes.
InFlight == {q \in Procs : pc[q] # "idle"}

\* Project.get_by_name (line 417) and the raise of line 419.
SP_Lookup(p, name) ==
    /\ pc[p] = "idle"
    /\ nextSessionId + Cardinality(InFlight) <= MaxSessions
    /\ IF get_by_name(projects, name) = {}
       THEN /\ last' = Result("start_project", "project_not_found")
            /\ UNCHANGED procs
       ELSE \E row \in get_by_name(projects, name) :
            /\ pc' = [pc EXCEPT ![p] = "stop_select"]
            /\ loc' = [loc EXCEPT ![p] = [NoLocals EXCEPT !.project_id = row.id]]
            /\ UNCHANGED last
    /\ UNCHANGED <<store, clock>>

\* Session.stop: the SELECT of the most recent open session (lines 172-178).
SP_StopSelect(p) ==
    /\ pc[p] = "stop_select"
    /\ IF MostRecentOpen(sessions) = {}
       THEN /\ pc' = [pc EXCEPT ![p] = "start_check"]
            /\ loc' = [loc EXCEPT ![p].seenNext = nextSessionId,
                                  ![p].seenOpen = Cardinality(OpenSessions(sessions))]
       ELSE \E a \in MostRecentOpen(sessions) :
            /\ pc' = [pc EXCEPT ![p] = "stop_update"]
            /\ loc' = [loc EXCEPT ![p].session_id = a.id,
                                  ![p].seenNext = nextSessionId,
                                  ![p].seenOpen = Cardinality(OpenSessions(sessions))]
    /\ UNCHANGED <<store, clock, last>>

\* Session.stop: the UPDATE (lines 180-184).
SP_StopUpdate(p) ==
    /\ pc[p] = "stop_update"
    /\ sessions' = UpdateEndTime(sessions, loc[p].session_id, now)
    /\ pc' = [pc EXCEPT ![p] = "start_check"]
    /\ UNCHANGED <<projects, nextProjectId, nextSessionId, config, clock, last, loc>>

\* Session.start: Project.get_by_id and the raise (lines 151-152).
SP_StartCheck(p) ==
    /\ pc[p] = "start_check"
    /\ IF get_by_id(projects, loc[p].project_id) = {}
       THEN /\ pc' = [pc EXCEPT ![p] = "idle"]
            /\ loc' = [loc EXCEPT ![p] = NoLocals]
            /\ last' = Result("start_project", "project_not_found")
       ELSE /\ pc' = [pc EXCEPT ![p] = "start_insert"]
            /\ UNCHANGED <<loc, last>>
    /\ UNCHANGED <<store, clock>>

\* Session.start: the INSERT (lines 155-159).  The foreign key rejects a
\* project_id that no longer exists with sqlite3.IntegrityError.
SP_StartInsert(p) ==
    /\ pc[p] = "start_insert"
    /\ \E t \in Readings(now) :
        /\ now' = t
        /\ clockBack' = (clockBack \/ t < now)
        /\ IF get_by_id(projects, loc[p].project_id) = {}
           THEN /\ pc' = [pc EXCEPT ![p] = "idle"]
                /\ loc' = [loc EXCEPT ![p] = NoLocals]
                /\ last' = Result("start_project", "integrity_error")
                /\ UNCHANGED <<sessions, nextSessionId>>
           ELSE /\ sessions' = InsertSession(sessions, nextSessionId,
                                             loc[p].project_id, t)
                /\ nextSessionId' = nextSessionId + 1
                /\ pc' = [pc EXCEPT ![p] = "start_config"]
                /\ UNCHANGED <<loc, last>>
    /\ UNCHANGED <<projects, nextProjectId, config>>

\* Session.start: Config.set (line 162), and the return of start_project.
SP_StartConfig(p) ==
    /\ pc[p] = "start_config"
    /\ config' = ConfigSet(config, KEY_CURRENT_PROJECT,
                                  Decimal(loc[p].project_id))
    /\ pc' = [pc EXCEPT ![p] = "idle"]
    /\ loc' = [loc EXCEPT ![p] = NoLocals]
    /\ last' = Result("start_project", "ok")
    /\ UNCHANGED <<projects, nextProjectId, sessions, nextSessionId, clock>>

\* ------------------------------------- get_status, one statement at a time
\* get_status: Session.get_active() (line 453) and the 'idle' return.
GS_GetActive(p) ==
    /\ pc[p] = "idle"
    /\ IF MostRecentOpen(sessions) = {}
       THEN /\ last' = Result("get_status", "idle")
            /\ UNCHANGED procs
       ELSE \E active \in MostRecentOpen(sessions) :
            /\ pc' = [pc EXCEPT ![p] = "status_project"]
            /\ loc' = [loc EXCEPT ![p] =
                          [NoLocals EXCEPT !.project_id = active.project_id,
                                           !.session_id = active.id]]
            /\ UNCHANGED last
    /\ UNCHANGED <<store, clock>>

\* get_status: project = self.project.get_by_id(active['project_id'])
\* (line 462).  A project that is None is kept as project_id 0.
GS_GetById(p) ==
    /\ pc[p] = "status_project"
    /\ pc' = [pc EXCEPT ![p] = "status_elapsed"]
    /\ loc' = [loc EXCEPT ![p].project_id =
                  IF get_by_id(projects, loc[p].project_id) = {}
                  THEN 0 ELSE loc[p].project_id]
    /\ UNCHANGED <<store, clock, last>>

\* get_status: get_elapsed_seconds(active['id']) (line 463), which is 0 for
\* a row that is gone, and the dict of lines 465-472, where project['name']
\* raises TypeError when project is None.
GS_Elapsed(p) ==
    /\ pc[p] = "status_elapsed"
    /\ pc' = [pc EXCEPT ![p] = "idle"]
    /\ loc' = [loc EXCEPT ![p] = NoLocals]
    /\ last' = Result("get_status",
                      IF loc[p].project_id = 0 THEN "type_error"
                      ELSE "tracking")
    /\ UNCHANGED <<store, clock>>

\* ----------------------------------------------------------- specifications
Summaries == {""}

ControllerNext ==
    \/ \E name \in Names, summary \in Summaries : CreateProject(name, summary)
    \/ \E name \in Names : DeleteProject(name)
    \/ \E name \in Names : StartTracking(name)
    \/ StopTracking
    \/ Status
    \/ Tick
    \/ ClockStepBack

\* One process driving the controller (the CLI, or the menu's callbacks).
Next == ControllerNext

Spec == Init /\ [][Next]_vars

TrackerNext ==
    \/ ControllerNext
    \/ \E project_id \in 1..MaxProjects : SessionStart(project_id)
    \/ SessionStopActive
    \/ \E session_id \in 1..MaxSessions : SessionStop(session_id)

\* One process calling the controller and the Session model directly.
SpecTracker == Init /\ [][TrackerNext]_vars

SessionNext ==
    \/ \E name \in Names : CreateProject(name, "")
    \/ \E name \in Names : DeleteProject(name)
    \/ \E project_id \in 1..MaxProjects : SessionStart(project_id)
    \/ SessionStopActive
    \/ Tick
    \/ ClockStepBack

\* One process calling Session.start and Session.stop() directly on the
\* projects it creates and deletes.
SpecSession == Init /\ [][SessionNext]_vars

StatusNext ==
    \/ \E name \in Names : CreateProject(name, "")
    \/ \E name \in Names : StartTracking(name)
    \/ StopTracking
    \/ Status
    \/ \E project_id \in 1..MaxProjects : SessionStart(project_id)
    \/ Tick
    \/ ClockStepBack

\* One process starting sessions through the controller and through
\* Session.start, stopping through the controller and asking for the status.
SpecStatus == Init /\ [][StatusNext]_vars

ConcNext ==
    \/ \E name \in Names, summary \in Summaries : CreateProject(name, summary)
    \/ Tick
    \/ ClockStepBack
    \/ \E p \in Procs, name \in Names : SP_Lookup(p, name)
    \/ \E p \in Procs : SP_StopSelect(p)
    \/ \E p \in Procs : SP_StopUpdate(p)
    \/ \E p \in Procs : SP_StartCheck(p)
    \/ \E p \in Procs : SP_StartInsert(p)
    \/ \E p \in Procs : SP_StartConfig(p)

\* Two processes (the CLI beside the menu-bar app) on the same store.
SpecConc == Init /\ [][ConcNext]_vars

PollNext ==
    \/ \E name \in Names : CreateProject(name, "")
    \/ \E name \in Names : DeleteProject(name)
    \/ \E name \in Names : StartTracking(name)
    \/ StopTracking
    \/ Tick
    \/ \E p \in Procs : GS_GetActive(p)
    \/ \E p \in Procs : GS_GetById(p)
    \/ \E p \in Procs : GS_Elapsed(p)

\* Processes polling get_status statement by statement (the menu-bar app's
\* update loop) while controller operations of another process commit
\* between the statements.
SpecPoll == Init /\ [][PollNext]_vars


\* ========================================================== elapsed seconds
\* The clock advances by one tick, up to MaxInstant (time.sleep between two
\* polls, as in the menu's update loop).
Wait ==
    /\ now < MaxInstant
    /\ now' = now + 1
    /\ UNCHANGED <<store, clockBack, last, procs>>

\* Session.get_elapsed_seconds(session_id) called, session_id = NULL for the
\* call with no id; last keeps the argument and the value returned.
ElapsedSeconds(session_id) ==
    /\ \E v \in get_elapsed_seconds(sessions, session_id, now) :
          last' = [op |-> "get_elapsed_seconds", result |-> "ok",
                   session_id |-> session_id, value |-> v]
    /\ UNCHANGED <<store, clock, procs>>

ElapsedNext ==
    \/ CreateProject("A", "")
    \/ SessionStart(1)
    \/ SessionStopActive
    \/ Wait
    \/ ClockStepBack
    \/ \E session_id \in {NULL} \cup (1..MaxSessions) :
          ElapsedSeconds(session_id)

\* One process starting, stopping and polling sessions of one project over
\* MaxInstant ticks of the clock.
SpecElapsed == Init /\ [][ElapsedNext]_vars

\* =============================================================== formatting
SecondsPerHour == 3600
SecondsPerMinute == 60

\* Mutant: the field cut to its last two digits (a fixed-width column).
Pad2_Fixed(n) == <<DigitChars[((n \div 10) % 10) + 1], DigitChars[(n % 10) + 1]>>

\* f"{n:02d}": sign and digits, zero-padded on the left to a width of 2,
\* never shortened.
Pad2(n) ==
    LET body == IF n < 0 THEN <<"-">> \o Decimal(-n) ELSE Decimal(n)
    IN  IF Len(body) < 2 THEN <<"0">> \o body ELSE body

\* TimeAnalytics.format_seconds(seconds); // and % of Python floor, as \div
\* and % do.
format_seconds(seconds) ==
    LET hours == seconds \div SecondsPerHour
        minutes == (seconds % SecondsPerHour) \div SecondsPerMinute
        secs == seconds % SecondsPerMinute
    IN  Pad2(hours) \o <<":">> \o Pad2(minutes) \o <<":">> \o Pad2(secs)

\* The arguments format_seconds is called with: MaxFormat + 1 values from one
\* minute below zero, from 00:59:00 and from 99:59:00 on.
FormatInputs ==
    {b + k : b \in {-SecondsPerMinute, SecondsPerHour - SecondsPerMinute,
                    100 * SecondsPerHour - SecondsPerMinute},
             k \in 0..MaxFormat}

\* format_seconds(x) called; last keeps the argument and the text returned.
FormatSeconds(x) ==
    /\ last' = [op |-> "format_seconds", result |-> "ok", value |-> x,
                text |-> format_seconds(x)]
    /\ UNCHANGED <<store, clock, procs>>

FormatNext == \E x \in FormatInputs : FormatSeconds(x)

\* format_seconds applied to each of the FormatInputs.
SpecFormat == Init /\ [][FormatNext]_vars

\* ================================================================ analytics
\* Calendar.  Tick 0 is 00:00:00 of a Monday; datetimes are naive, so a day
\* is 86400 seconds and a week 7 days in every computation of the code.
SecondsPerDay == 86400
DaysPerWeek == 7
TicksPerDay == SecondsPerDay * TicksPerSecond
TicksPerWeek == DaysPerWeek * TicksPerDay

\* 00:00:00 of the Monday one week after tick 0.
Monday == TicksPerWeek

\* The clock readings of the analytics runs: Sunday 23:59:30, Monday
\* 00:00:00, 00:00:01.5 and 23:59:59, Tuesday 00:00:00 and 00:00:02, and
\* tick 0, a week before that Monday.
Instants ==
    {0, Monday - 60, Monday, Monday + 3,
     Monday + TicksPerDay - 2, Monday + TicksPerDay, Monday + TicksPerDay + 4}

\* date.replace(hour=0, minute=0, second=0, microsecond=0).
DayStart(t) == t - (t % TicksPerDay)

\* today - timedelta(days=today.weekday()), then .replace(hour=0, ...).
WeekStart(t) == DayStart(t - ((t \div TicksPerDay) % DaysPerWeek) * TicksPerDay)

\* JULIANDAY(x) is iJD / 86400000.0, a double between 2^21 and 2^22 days, so
\* it is a multiple of 2^-31 day: the exact day number rounded to nearest.
\* One tick is 2^31 / TicksPerDay = 2^23 / JdDen such units (JdDen = 675 at
\* two ticks per second), and tick 0, a midnight, is a whole number of them.
\* JdErr(k) is JdDen times the rounding error of JULIANDAY at tick k, in
\* those units (never a tie, JdDen being odd).
JdDen == TicksPerDay \div 256
JdErr(k) ==
    LET q == (((2^23) % JdDen) * k) % JdDen
    IN  IF 2 * q < JdDen THEN -q ELSE JdDen - q

\* CAST((JULIANDAY(end) - JULIANDAY(start)) * 86400 AS INTEGER).  The
\* subtraction and the product are exact in double arithmetic, giving
\* (end - start) / TicksPerSecond + (JdErr(end) - JdErr(start)) / 2^24
\* seconds; CAST drops the fraction, toward 0.  A difference of whole
\* seconds therefore loses a second when the error term is negative.
SqlSeconds(start, end) ==
    LET dk == end - start
        eps == JdErr(end) - JdErr(start)
    IN  IF dk % TicksPerSecond # 0 THEN Trunc(dk, TicksPerSecond)
        ELSE IF dk > 0 /\ eps < 0 THEN Trunc(dk, TicksPerSecond) - 1
        ELSE IF dk < 0 /\ eps > 0 THEN Trunc(dk, TicksPerSecond) + 1
        ELSE Trunc(dk, TicksPerSecond)

\* COALESCE(s.end_time, ?) with datetime.now() = t for the parameter.
Coalesce(end_time, t) == IF end_time # NULL THEN end_time ELSE t

\* SUM(CAST(... AS INTEGER)) over the rows R of one group.
RECURSIVE SumSql(_, _)
SumSql(R, t) ==
    IF R = {}
    THEN 0
    ELSE LET s == CHOOSE x \in R : TRUE
         IN  SqlSeconds(s.start_time, Coalesce(s.end_time, t))
               + SumSql(R \ {s}, t)

\* FROM sessions s JOIN projects p ON s.project_id = p.id [WHERE ...] GROUP BY
\* p.id, p.name, over the session rows R the WHERE clause keeps, and the dict
\* built from it: one entry per project with a row in R, keyed by name.
GroupByProject(P, R, t) ==
    {[name |-> p.name, project_id |-> p.id,
      seconds |-> SumSql({s \in R : s.project_id = p.id}, t)] :
        p \in {q \in P : \E s \in R : s.project_id = q.id}}

\* Mutant: the rows in the order of the grouping (by project id), with no
\* ORDER BY.
RowComesFirst_ById(r, R) == \A x \in R : r.project_id <= x.project_id

\* ORDER BY total_seconds DESC: may row r come first among the rows R?
RowComesFirst(r, R) == \A x \in R : x.seconds <= r.seconds

\* The orders in which the result dict of a breakdown may list its entries B:
\* the order of the rows fetched (a dict keeps insertion order, and the names
\* are distinct), any one that ORDER BY total_seconds DESC allows.
RECURSIVE dict_orders(_)
dict_orders(B) ==
    IF B = {}
    THEN {<< >>}
    ELSE UNION {{<<r>> \o rest : rest \in dict_orders(B \ {r})} :
                  r \in {x \in B : RowComesFirst(x, B)}}

\* TimeAnalytics.get_daily_breakdown(date) at clock reading t.
get_daily_breakdown(P, S, date, t) ==
    GroupByProject(P, {s \in S : /\ s.start_time >= DayStart(date)
                                 /\ s.start_time < DayStart(date) + TicksPerDay},
                   t)

\* Mutant: the weekly breakdown taken over the sessions that have ended only.
get_weekly_breakdown_Ended(P, S, t) ==
    GroupByProject(P, {s \in S : /\ s.start_time >= WeekStart(t)
                                 /\ s.end_time # NULL}, t)

\* TimeAnalytics.get_weekly_breakdown() at clock reading t.
get_weekly_breakdown(P, S, t) ==
    GroupByProject(P, {s \in S : s.start_time >= WeekStart(t)}, t)

\* TimeAnalytics.get_total_breakdown() at clock reading t.
get_total_breakdown(P, S, t) == GroupByProject(P, S, t)

\* Session.get_sessions_for_project(project_id, start_date, end_date), NULL
\* for a bound left out.
get_sessions_in_range(S, project_id, start_date, end_date) ==
    {s \in get_sessions_for_project(S, project_id) :
        /\ start_date # NULL => s.start_time >= start_date
        /\ end_date # NULL => s.start_time < end_date}

\* total_seconds += int((end - start).total_seconds()) over the rows R.
RECURSIVE SumElapsed(_, _)
SumElapsed(R, t) ==
    IF R = {}
    THEN 0
    ELSE LET s == CHOOSE x \in R : TRUE
         IN  Trunc(Coalesce(s.end_time, t) - s.start_time, TicksPerSecond)
               + SumElapsed(R \ {s}, t)

\* TimeAnalytics.get_project_time_today(project_id) at clock reading t.
get_project_time_today(S, project_id, t) ==
    SumElapsed(get_sessions_in_range(S, project_id, DayStart(t),
                                     DayStart(t) + TicksPerDay), t)

\* TimeAnalytics.get_project_time_week(project_id) at clock reading t.
get_project_time_week(S, project_id, t) ==
    SumElapsed(get_sessions_in_range(S, project_id, WeekStart(t), NULL), t)

\* Mutant: the total taken over the sessions that have ended only.
get_project_time_total_Ended(S, project_id, t) ==
    SumElapsed({s \in get_sessions_for_project(S, project_id) :
                  s.end_time # NULL}, t)

\* TimeAnalytics.get_project_time_total(project_id) at clock reading t.
get_project_time_total(S, project_id, t) ==
    SumElapsed(get_sessions_in_range(S, project_id, NULL, NULL), t)

\* Time passes: the clock moves on to a later one of the Instants.
Elapse ==
    /\ \E t \in Instants : t > now /\ now' = t
    /\ UNCHANGED <<store, clockBack, last, procs>>

\* The report queries called.  They only read the tables; what they return
\* is get_daily_breakdown, ..., get_project_time_total on the current state.
DailyBreakdown(date) ==
    /\ last' = Result("get_daily_breakdown", "ok")
    /\ UNCHANGED <<store, clock, procs>>

WeeklyBreakdown ==
    /\ last' = Result("get_weekly_breakdown", "ok")
    /\ UNCHANGED <<store, clock, procs>>

TotalBreakdown ==
    /\ last' = Result("get_total_breakdown", "ok")
    /\ UNCHANGED <<store, clock, procs>>

ProjectTime(project_id) ==
    /\ last' = Result("get_project_time", "ok")
    /\ UNCHANGED <<store, clock, procs>>

AnalyticsNext ==
    \/ \E name \in Names : CreateProject(name, "")
    \/ \E project_id \in 1..MaxProjects : SessionStart(project_id)
    \/ SessionStopActive
    \/ Elapse
    \/ \E date \in Instants : DailyBreakdown(date)
    \/ WeeklyBreakdown
    \/ TotalBreakdown
    \/ \E project_id \in 1..MaxProjects : ProjectTime(project_id)

\* One process tracking up to MaxSessions sessions around the Monday and
\* Tuesday midnights and asking for the reports.
SpecAnalytics == Init /\ [][AnalyticsNext]_vars

\* The clock readings of the report runs: tick 0, Monday 00:00:00 and
\* 23:59:59, and Tuesday 00:00:00.
ReportInstants ==
    {0, Monday, Monday + TicksPerDay - 2, Monday + TicksPerDay}

\* Time passes: the clock moves on to a later one of the ReportInstants.
ElapseToReport ==
    /\ \E t \in ReportInstants : t > now /\ now' = t
    /\ UNCHANGED <<store, clockBack, last, procs>>

ReportNext ==
    \/ \E name \in Names : CreateProject(name, "")
    \/ \E project_id \in 1..MaxProjects : SessionStart(project_id)
    \/ SessionStopActive
    \/ ElapseToReport
    \/ \E date \in Instants : DailyBreakdown(date)
    \/ WeeklyBreakdown
    \/ TotalBreakdown

\* One process tracking sessions from a week before to the Tuesday midnight
\* and asking for the grouped breakdowns.
SpecReport == Init /\ [][ReportNext]_vars

\* ========================================================= Project Registry
\* The names and summaries the registry operations are called with.  TEXT is
\* compared as its bytes (SQLite's default BINARY collation); NameBytes gives
\* the UTF-8 bytes of each name.
RegistryNames == {"", "A", "AB", "B", "a"}
RegistrySummaries == {"", "s"}

NameBytes(name) ==
    CASE name = ""   -> << >>
      [] name = "A"  -> <<65>>
      [] name = "AB" -> <<65, 66>>
      [] name = "B"  -> <<66>>
      [] name = "a"  -> <<97>>

\* memcmp order of two byte strings, the shorter first when it is a prefix.
BytesLess(a, b) ==
    \E i \in 1..(Len(b)) :
        /\ \A j \in 1..(i - 1) : j <= Len(a) /\ a[j] = b[j]
        /\ (i > Len(a) \/ (i <= Len(a) /\ a[i] < b[i]))

\* Mutant: no ORDER BY: the rows come in rowid order.
RowBefore_ById(p, q) == p.id < q.id

\* ORDER BY name: does row p come before row q?
RowBefore(p, q) == BytesLess(NameBytes(p.name), NameBytes(q.name))

\* Project.list_all: the rows of P as the sequence ORDER BY name returns.
RECURSIVE list_all(_)
list_all(P) ==
    IF P = {} THEN << >>
    ELSE LET first == CHOOSE p \in P : \A q \in P \ {p} : RowBefore(p, q)
         IN  <<first>> \o list_all(P \ {first})

\* UPDATE projects SET ... WHERE id = ?: would it raise IntegrityError?
RenameCollides(P, project_id, name) ==
    /\ name # None
    /\ get_by_id(P, project_id) # {}
    /\ \E q \in P : q.id # project_id /\ q.name = name

\* The UPDATE succeeding.
UpdateRow(P, project_id, name, summary) ==
    {IF p.id = project_id
     THEN [p EXCEPT !.name = IF name = None THEN @ ELSE name,
                    !.summary = IF summary = None THEN @ ELSE summary]
     ELSE p : p \in P}

\* Project.update(project_id, name, summary).  The IntegrityError of a
\* colliding name is not caught: it leaves the method as it is.
UpdateProject(project_id, name, summary) ==
    /\ IF name = None /\ summary = None
       THEN /\ last' = Result("update", "false")
            /\ UNCHANGED projects
       ELSE IF RenameCollides(projects, project_id, name)
       THEN /\ last' = Result("update", "integrity_error")
            /\ UNCHANGED projects
       ELSE /\ projects' = UpdateRow(projects, project_id, name, summary)
            /\ last' = Result("update",
                              IF get_by_id(projects, project_id) # {}
                              THEN "true" ELSE "false")
    /\ UNCHANGED <<nextProjectId, sessions, nextSessionId, config, clock, procs>>

RegistryNext ==
    \/ \E name \in RegistryNames, summary \in RegistrySummaries :
            CreateProject(name, summary)
    \/ \E name \in RegistryNames : DeleteProject(name)
    \/ \E project_id \in 1..MaxProjects :
       \E name \in RegistryNames \cup {None} :
       \E summary \in RegistrySummaries \cup {None} :
            UpdateProject(project_id, name, summary)

\* One process calling the Project model.
SpecRegistry == Init /\ [][RegistryNext]_vars

\* =================================================================== export
CsvHeader == <<"Project", "Total Time (HH:MM:SS)", "Total Seconds">>

\* TimeTracker.export_to_csv: the rows written to the file at clock reading
\* t, the header first, then one row [name, formatted, total_seconds] for
\* each project of list_all, in that order.
export_to_csv(P, S, t) ==
    <<CsvHeader>> \o
    [i \in 1..Len(list_all(P)) |->
        LET proj == list_all(P)[i]
            total_seconds == get_project_time_total(S, proj.id, t)
        IN  <<proj.name, format_seconds(total_seconds), total_seconds>>]

\* export_to_csv called.  It writes the file and reads the tables.
Export ==
    /\ last' = Result("export_to_csv", "ok")
    /\ UNCHANGED <<store, clock, procs>>

ExportNext ==
    \/ \E name \in Names : CreateProject(name, "")
    \/ \E name \in Names : DeleteProject(name)
    \/ \E project_id \in 1..MaxProjects : SessionStart(project_id)
    \/ SessionStopActive
    \/ Wait
    \/ Export

\* One process creating and deleting projects, tracking sessions over
\* MaxInstant ticks and exporting.
SpecExport == Init /\ [][ExportNext]_vars

\* ================================================================== queries
\* Mutant: a get_active that closes the session it returns.
GetActive_Closing ==
    /\ \E st \in StopActive(sessions, now) :
          /\ sessions' = st.sessions
          /\ last' = Result("get_active", IF st.stopped THEN "row" ELSE "none")
    /\ UNCHANGED <<projects, nextProjectId, nextSessionId, config, clock, procs>>

\* Session.get_active() called: one SELECT.
GetActive ==
    /\ last' = Result("get_active",
                      IF MostRecentOpen(sessions) = {} THEN "none" ELSE "row")
    /\ UNCHANGED <<store, clock, procs>>

\* Session.get_sessions_for_project(project_id) called: one SELECT.
SessionsForProject(project_id) ==
    /\ last' = Result("get_sessions_for_project",
                      IF get_sessions_for_project(sessions, project_id) = {}
                      THEN "none" ELSE "rows")
    /\ UNCHANGED <<store, clock, procs>>

\* The operations that issue no INSERT, UPDATE or DELETE.
ReadOnlyOps ==
    {"get_status", "get_active", "get_elapsed_seconds",
     "get_sessions_for_project", "get_daily_breakdown",
     "get_weekly_breakdown", "get_total_breakdown", "get_project_time",
     "export_to_csv"}

QueryNext ==
    \/ \E name \in Names : CreateProject(name, "")
    \/ \E name \in Names : DeleteProject(name)
    \/ \E project_id \in 1..MaxProjects : SessionStart(project_id)
    \/ SessionStopActive
    \/ Tick
    \/ Status
    \/ GetActive
    \/ \E session_id \in {NULL} \cup (1..MaxSessions) :
          ElapsedSeconds(session_id)
    \/ \E project_id \in 1..MaxProjects : SessionsForProject(project_id)
    \/ \E date \in Instants : DailyBreakdown(date)
    \/ WeeklyBreakdown
    \/ TotalBreakdown
    \/ \E project_id \in 1..MaxProjects : ProjectTime(project_id)
    \/ Export

\* One process changing the tables and calling every query on them.
SpecQuery == Init /\ [][QueryNext]_vars

\* =================================================================== claims
NumOpen(S) == Cardinality(OpenSessions(S))
SessionIds(S) == {s.id : s \in S}
RowOf(S, id) == CHOOSE s \in S : s.id = id

\* A step of the controller's start_project that returned normally.
StartTrackingOk ==
    /\ last'.op = "start_project"
    /\ last'.result = "ok"
    /\ nextSessionId' = nextSessionId + 1

\* C1: in every state reachable from the empty store through controller
\* operations run one at a time, at most one session has a NULL end_time.
C1_AtMostOneOpen == NumOpen(sessions) <= 1

\* C1 witness: a second start_project has run: one session is open and an
\* earlier one has been closed.
C1_Witness ==
    /\ last = Result("start_project", "ok")
    /\ NumOpen(sessions) = 1
    /\ Cardinality(sessions) = 2

\* The session the previous operation, a successful start_project, opened.
LastStarted == RowOf(sessions, nextSessionId - 1)

\* start_project(Q) directly after a successful start_project(P), P # Q,
\* where the session of P is the only open one (at most one was open before).
C2_Case ==
    /\ last = Result("start_project", "ok")
    /\ OpenSessions(sessions) = {LastStarted}
    /\ StartTrackingOk
    /\ RowOf(sessions', nextSessionId).project_id # LastStarted.project_id

C2_Post ==
    /\ OpenSessions(sessions') = {RowOf(sessions', nextSessionId)}
    /\ LastStarted.id \in SessionIds(sessions')
    /\ RowOf(sessions', LastStarted.id).end_time # NULL
    /\ RowOf(sessions', LastStarted.id).end_time
         <= RowOf(sessions', nextSessionId).start_time

C3_RaceNeedsInterleaving ==
    \A p \in Procs :
        ( /\ pc[p] = "start_config"
          /\ loc[p].seenOpen <= 1
          /\ nextSessionId = loc[p].seenNext + 1 )
        => NumOpen(sessions) <= 1

\* C3 witness: both processes have returned from start_project and two
\* sessions are open.
C3_Witness ==
    /\ \A p \in Procs : pc[p] = "idle"
    /\ last = Result("start_project", "ok")
    /\ NumOpen(sessions) = 2

\* C4: stop_project() with no open session returns no_active_session and
\* leaves projects, sessions and config unchanged.
C4_StopIdle ==
    [][(NumOpen(sessions) = 0 /\ last'.op = "stop_project" /\ UNCHANGED clock)
        => (last'.result = "no_active_session" /\ UNCHANGED store)]_vars

\* C4 witness: stop_project has returned no_active_session on a store that
\* holds a project and a closed session.
C4_Witness ==
    /\ last = Result("stop_project", "no_active_session")
    /\ sessions # {}
    /\ NumOpen(sessions) = 0

\* C5: start_project(name) with a name of no existing project fails with the
\* project-not-found error and leaves the store unchanged (an open session
\* stays open, no session is created).
C5_UnknownName ==
    [][\A name \in Names :
        (get_by_name(projects, name) = {} /\ StartTracking(name))
        => ( /\ last' = Result("start_project", "project_not_found")
             /\ UNCHANGED store
             /\ OpenSessions(sessions') = OpenSessions(sessions) )]_vars

\* C5 witness: start_project has failed with project-not-found while a
\* session was open.
C5_Witness ==
    /\ last = Result("start_project", "project_not_found")
    /\ NumOpen(sessions) = 1

\* C6 as stated: a session is created with a NULL end_time and its end_time,
\* once non-NULL, is never changed by a later stop.
C6_EndWrittenOnce ==
    [][ /\ \A s \in sessions' :
            s.id \notin SessionIds(sessions) => s.end_time = NULL
        /\ \A s \in sessions :
            (s.end_time # NULL /\ s.id \in SessionIds(sessions'))
            => RowOf(sessions', s.id).end_time = s.end_time ]_vars

\* C7: given that the readings of the clock never decrease, every session
\* with a non-NULL end_time has end_time >= start_time.
C7_EndNotBeforeStart ==
    ~clockBack =>
        \A s \in sessions : s.end_time # NULL => s.end_time >= s.start_time

\* C7 witness: Session.stop has just returned True and a stored session has
\* end_time > start_time, under a clock that never stepped back.
C7_Witness ==
    /\ ~clockBack
    /\ last = Result("stop", "true")
    /\ \E s \in sessions : s.end_time # NULL /\ s.end_time > s.start_time

Before(s, t) == s.end_time # NULL /\ s.end_time <= t.start_time

NoOverlap(S) ==
    \A s, t \in S :
        s.id # t.id =>
            /\ s.start_time < t.start_time => Before(s, t)
            /\ s.start_time = t.start_time => (Before(s, t) \/ Before(t, s))

\* C8 as stated: under controller operations no two sessions overlap: of two
\* distinct sessions the one that started earlier has a non-NULL end_time
\* <= the start_time of the other.
C8_Original == NoOverlap(sessions)

\* C8 amended: the same, given that the readings of the clock never decrease.
C8_NoOverlap == ~clockBack => NoOverlap(sessions)

\* C8 witness: two sessions, the earlier closed before the later, open one
\* started, the clock never having stepped back.
C8_Witness ==
    /\ ~clockBack
    /\ \E s, t \in sessions :
        /\ s.start_time < t.start_time
        /\ Before(s, t)
        /\ t.end_time = NULL

\* C9: deleting project P removes P and every session of P
\* (get_sessions_for_project(P) is empty afterwards) and leaves every other
\* project and every session of every other project unchanged.
C9_DeleteCascades ==
    [][\A name \in Names : \A p \in get_by_name(projects, name) :
        DeleteProject(name)
        => ( /\ get_by_id(projects', p.id) = {}
             /\ get_sessions_for_project(sessions', p.id) = {}
             /\ \A q \in projects : q.id # p.id => q \in projects'
             /\ projects' \subseteq projects
             /\ \A s \in sessions : s.project_id # p.id => s \in sessions'
             /\ sessions' \subseteq sessions )]_vars

\* C9 witness: a delete has removed a session while another project and its
\* session remain.
C9_Witness ==
    /\ last = Result("delete", "ok")
    /\ Cardinality(projects) = 1
    /\ Cardinality(sessions) = 1
    /\ nextSessionId = 3

\* C10: every stored session's project_id is the id of an existing project.
C10_NoOrphan ==
    \A s \in sessions : get_by_id(projects, s.project_id) # {}

\* C10 witness: a project that owned a session has been deleted and a
\* session of another project is still stored.
C10_Witness ==
    /\ last = Result("delete", "ok")
    /\ sessions # {}
    /\ nextSessionId > Cardinality(sessions) + 1
    /\ NumOpen(sessions) = 1

\* C11: create with the name of an existing project fails with the
\* duplicate-name error and adds no project, and project names are pairwise
\* distinct in every reachable state.
C11_DuplicateName ==
    /\ [](\A p, q \in projects : p.name = q.name => p = q)
    /\ [][\A name \in RegistryNames, summary \in RegistrySummaries :
            (NameTaken(projects, name) /\ CreateProject(name, summary))
            => (last' = Result("create", "already_exists") /\ UNCHANGED store)]_vars

\* C11 witness: a create has failed with the duplicate-name error and the
\* registry still holds the one project created before.
C11_Witness ==
    /\ last = Result("create", "already_exists")
    /\ Cardinality(projects) = 1
    /\ nextProjectId = 2

\* C12 as stated: every stored project has a non-empty name (create("")
\* being rejected).
C12_NonEmptyNames == \A p \in projects : p.name # ""

\* C13 as stated: update(id, name) with the name of another project fails
\* with the duplicate-name error of create and changes no project.
C13_UpdateDuplicate ==
    [][\A project_id \in 1..MaxProjects, name \in RegistryNames :
        ( /\ RenameCollides(projects, project_id, name)
          /\ \E summary \in RegistrySummaries \cup {None} :
                UpdateProject(project_id, name, summary) )
        => (last'.result = "already_exists" /\ UNCHANGED projects)]_vars

\* C14: list_all returns exactly the stored projects, each once, in ascending
\* order of name (in particular after creates with distinct names only).
C14_ListAllSorted ==
    LET L == list_all(projects) IN
    /\ Len(L) = Cardinality(projects)
    /\ {L[i] : i \in 1..Len(L)} = projects
    /\ \A i, j \in 1..Len(L) :
        i < j => BytesLess(NameBytes(L[i].name), NameBytes(L[j].name))

\* C14 witness: two creates and no delete, the second name sorting first.
C14_Witness ==
    /\ nextProjectId = 3
    /\ Cardinality(projects) = 2
    /\ last = Result("create", "ok")
    /\ list_all(projects)[1].id = 2

\* What get_status may return in the current state.
StatusNow == get_status(projects, sessions, now)

\* C15: get_status returns 'idle' exactly when no session has a NULL
\* end_time; otherwise it returns 'tracking' with the id of an open session
\* that no open session was started after, and the id and name of that
\* session's project.  A start_project(P) that succeeds from a state with at
\* most one open session leaves get_status at 'tracking' P on the new
\* session, and a stop_project that stopped a session from such a state
\* leaves it at 'idle'.
C15_Status ==
    /\ [](\A r \in StatusNow :
            /\ (r.status = "idle") <=> (OpenSessions(sessions) = {})
            /\ OpenSessions(sessions) # {} =>
                 /\ r.status = "tracking"
                 /\ \E s \in OpenSessions(sessions) :
                      /\ \A o \in OpenSessions(sessions) :
                            o.start_time <= s.start_time
                      /\ r.session_id = s.id
                      /\ r.active_project_id = s.project_id
                      /\ \E p \in projects :
                            p.id = s.project_id /\ p.name = r.active_project)
    /\ [][\A name \in Names :
            (NumOpen(sessions) <= 1 /\ StartTracking(name) /\ StartTrackingOk)
            => \A r \in StatusNow' :
                  /\ r.status = "tracking"
                  /\ r.active_project = name
                  /\ r.session_id = nextSessionId]_vars
    /\ [][(/\ NumOpen(sessions) <= 1
           /\ StopTracking
           /\ last' = Result("stop_project", "stopped"))
          => \A r \in StatusNow' : r.status = "idle"]_vars

\* C15 witness: get_status has answered 'tracking' while two sessions started
\* at different clock readings are open.
C15_Witness ==
    /\ last = Result("get_status", "tracking")
    /\ \E s, o \in OpenSessions(sessions) : o.start_time < s.start_time

\* Two calls of get_elapsed_seconds(id) in a row (nothing but the clock has
\* moved between them) on a session that is open.
C16_Case ==
    /\ last.op = "get_elapsed_seconds"
    /\ last.session_id # NULL
    /\ \E s \in OpenSessions(sessions) : s.id = last.session_id
    /\ ElapsedSeconds(last.session_id)

\* Once the clock is d whole seconds or more past the start of an open
\* session, get_elapsed_seconds for it, and get_status when it reports that
\* session, read at least d.
C16_AtLeast ==
    \A s \in OpenSessions(sessions), d \in 0..MaxInstant :
        now - s.start_time >= d * TicksPerSecond
        => /\ \A v \in get_elapsed_seconds(sessions, s.id, now) : v >= d
           /\ \A r \in StatusNow :
                 r.session_id = s.id => r.elapsed_seconds >= d

\* C16 as stated: while a session stays open, each get_elapsed_seconds
\* reading for it is at least the reading before it.
C16_Original == [][C16_Case => last'.value >= last.value]_vars

\* C16: as long as no reading of the clock has been earlier than the one
\* before it, each get_elapsed_seconds reading for a session that stays open
\* is at least the reading before it; and a reading (of get_elapsed_seconds
\* or of get_status) taken when the clock is d whole seconds or more past the
\* session's start is at least d.
C16_Monotone ==
    /\ [][(C16_Case /\ ~clockBack') => last'.value >= last.value]_vars
    /\ []C16_AtLeast

\* C16 witness: an open session has been polled at a reading of 0 seconds,
\* the clock has moved on to where the next reading is 1, and it has never
\* stepped back.
C16_Witness ==
    /\ last.op = "get_elapsed_seconds"
    /\ last.session_id # NULL
    /\ \E s \in OpenSessions(sessions) : s.id = last.session_id
    /\ last.value = 0
    /\ get_elapsed_seconds(sessions, last.session_id, now) = {1}
    /\ ~clockBack

\* v is diff ticks in whole seconds: the whole seconds that fit into diff,
\* counted from zero.
WholeSeconds(diff, v) ==
    IF diff >= 0
    THEN v * TicksPerSecond <= diff /\ diff < (v + 1) * TicksPerSecond
    ELSE v <= 0 /\ (-v) * TicksPerSecond <= -diff
                /\ -diff < (1 - v) * TicksPerSecond

\* C17: get_elapsed_seconds(id) is end_time - start_time in whole seconds
\* for a session with an end_time and now - start_time for an open one;
\* get_elapsed_seconds() is that value for an open session that no open
\* session was started after, and 0 when no session is open.
C17_ElapsedSeconds ==
    /\ \A s \in sessions :
          \A v \in get_elapsed_seconds(sessions, s.id, now) :
              WholeSeconds((IF s.end_time # NULL THEN s.end_time ELSE now)
                             - s.start_time, v)
    /\ OpenSessions(sessions) = {}
         => get_elapsed_seconds(sessions, NULL, now) = {0}
    /\ \A v \in get_elapsed_seconds(sessions, NULL, now) :
          OpenSessions(sessions) # {}
          => \E s \in OpenSessions(sessions) :
                /\ \A o \in OpenSessions(sessions) :
                      o.start_time <= s.start_time
                /\ WholeSeconds(now - s.start_time, v)

\* C17 witness: get_elapsed_seconds(id) has returned 1 for a session closed
\* one and a half seconds after its start.
C17_Witness ==
    /\ last.op = "get_elapsed_seconds"
    /\ last.value = 1
    /\ \E s \in sessions :
          /\ s.id = last.session_id
          /\ s.end_time # NULL
          /\ s.end_time - s.start_time = TicksPerSecond + 1

\* The entries of a breakdown dict for project p (none or one).
RowsOf(breakdown, p) == {r \in breakdown : r.project_id = p.id}

\* The dict entry the claims expect for project p when the sessions R are the
\* counted ones: none when R is empty, else p with the sum over R of the
\* whole seconds of coalesce(end, now) - start.
ExpectedRows(p, R) ==
    IF R = {}
    THEN {}
    ELSE {[name |-> p.name, project_id |-> p.id,
           seconds |-> SumElapsed(R, now)]}

\* C18: for every date, get_daily_breakdown(date) has an entry for a project
\* exactly when one of its sessions starts on the calendar day of date, and
\* the entry's seconds are the sum over those sessions of the full duration
\* coalesce(end, now) - start, whatever day the session ends on; sessions
\* started on another day add nothing.
C18_DailyBreakdown ==
    \A date \in Instants, p \in projects :
        RowsOf(get_daily_breakdown(projects, sessions, date, now), p)
          = ExpectedRows(p, {s \in sessions :
                /\ s.project_id = p.id
                /\ s.start_time \div TicksPerDay = date \div TicksPerDay})

\* C19: get_weekly_breakdown() has an entry for a project exactly when one
\* of its sessions starts at or after 00:00:00 of the Monday of the week
\* containing now, and the entry's seconds are the sum over those sessions
\* of coalesce(end, now) - start; sessions started before that Monday add
\* nothing.
C19_WeeklyBreakdown ==
    \A p \in projects :
        RowsOf(get_weekly_breakdown(projects, sessions, now), p)
          = ExpectedRows(p, {s \in sessions :
                /\ s.project_id = p.id
                /\ s.start_time >= (now \div TicksPerWeek) * TicksPerWeek})

\* Every stored timestamp and the clock are on a whole second.
WholeSecondTimestamps ==
    /\ now % TicksPerSecond = 0
    /\ \A s \in sessions :
          /\ s.start_time % TicksPerSecond = 0
          /\ s.end_time # NULL => s.end_time % TicksPerSecond = 0

\* The single-project value agrees with the grouped breakdown: it is the
\* seconds of the project's entry, and 0 when the project has no entry.
Agrees(value, breakdown, p) ==
    /\ \A r \in RowsOf(breakdown, p) : r.seconds = value
    /\ RowsOf(breakdown, p) = {} => value = 0

\* C20: with whole-second timestamps and both sides evaluated at the same
\* clock reading, for every project get_project_time_today, _week and
\* _total equal the seconds of the project's entry in get_daily_breakdown(),
\* get_weekly_breakdown() and get_total_breakdown(), and are 0 for a project
\* with no entry there.
C20_SingleEqualsGrouped ==
    WholeSecondTimestamps
    => \A p \in projects :
          /\ Agrees(get_project_time_today(sessions, p.id, now),
                    get_daily_breakdown(projects, sessions, now, now), p)
          /\ Agrees(get_project_time_week(sessions, p.id, now),
                    get_weekly_breakdown(projects, sessions, now), p)
          /\ Agrees(get_project_time_total(sessions, p.id, now),
                    get_total_breakdown(projects, sessions, now), p)

\* Reading an HH:MM:SS text back: the position of the first and of the last
\* colon, the characters between, and the number a run of digits denotes.
Colons(text) == {i \in 1..Len(text) : text[i] = ":"}
FirstColon(text) == CHOOSE i \in Colons(text) : \A j \in Colons(text) : i <= j
LastColon(text) == CHOOSE i \in Colons(text) : \A j \in Colons(text) : j <= i
IsDigits(field) ==
    \A i \in 1..Len(field) : \E d \in 1..10 : DigitChars[d] = field[i]
DigitValue(c) == (CHOOSE d \in 1..10 : DigitChars[d] = c) - 1
RECURSIVE NumberOf(_)
NumberOf(field) ==
    IF field = << >>
    THEN 0
    ELSE 10 * NumberOf(SubSeq(field, 1, Len(field) - 1))
           + DigitValue(field[Len(field)])

\* C22: for every x >= 0 the text format_seconds(x) returns reads back as
\* three fields of digits h:mm:ss with h at least two digits long, h = x div
\* 3600, mm and ss below 60, and h * 3600 + mm * 60 + ss = x; 3661 gives
\* 01:01:01 and 360000 gives 100:00:00.
C22_FormatLossless ==
    (last.op = "format_seconds" /\ last.value >= 0)
    => LET text == last.text
           h == SubSeq(text, 1, FirstColon(text) - 1)
           m == SubSeq(text, FirstColon(text) + 1, LastColon(text) - 1)
           sec == SubSeq(text, LastColon(text) + 1, Len(text))
       IN  /\ Cardinality(Colons(text)) = 2
           /\ IsDigits(h) /\ IsDigits(m) /\ IsDigits(sec)
           /\ Len(h) >= 2 /\ Len(m) = 2 /\ Len(sec) = 2
           /\ NumberOf(h) = last.value \div SecondsPerHour
           /\ NumberOf(m) < SecondsPerMinute
           /\ NumberOf(sec) < SecondsPerMinute
           /\ NumberOf(h) * SecondsPerHour + NumberOf(m) * SecondsPerMinute
                + NumberOf(sec) = last.value
           /\ last.value = 3661
                => text = <<"0", "1", ":", "0", "1", ":", "0", "1">>
           /\ last.value = 360000
                => text = <<"1", "0", "0", ":", "0", "0", ":", "0", "0">>

\* C22 witness: format_seconds has been called with 100 hours.
C22_Witness ==
    /\ last.op = "format_seconds"
    /\ last.value = 100 * SecondsPerHour
    /\ Len(last.text) = 9

\* The data rows of the export in the current state.
ExportRows == Tail(export_to_csv(projects, sessions, now))

\* C21: the export has exactly one data row for each stored project, the
\* rows are in ascending order of the name, and the total seconds of a
\* project's row are the sum over its sessions of the whole seconds of
\* coalesce(end, now) - start, which is 0 for a project with no session.
C21_Export ==
    LET rows == ExportRows
    IN  /\ Len(rows) = Cardinality(projects)
        /\ \A p \in projects :
              \E i \in 1..Len(rows) :
                  /\ rows[i][1] = p.name
                  /\ rows[i][3]
                       = SumElapsed({s \in sessions : s.project_id = p.id},
                                    now)
                  /\ (\A s \in sessions : s.project_id # p.id)
                       => rows[i][3] = 0
        /\ \A i, j \in 1..Len(rows) :
              i < j => BytesLess(NameBytes(rows[i][1]), NameBytes(rows[j][1]))

\* C21 witness: an export has run on two projects, the one created second
\* coming first by name, one with a total of at least a second from an open
\* session and the other with no session.
C21_Witness ==
    /\ last = Result("export_to_csv", "ok")
    /\ Len(ExportRows) = 2
    /\ \E p, q \in projects : p.id > q.id /\ ExportRows[1][1] = p.name
    /\ \E i, j \in 1..2 :
          /\ ExportRows[i][3] >= 1
          /\ \E s \in OpenSessions(sessions) :
                \E p \in projects : p.id = s.project_id
                                     /\ p.name = ExportRows[i][1]
          /\ \E p \in projects :
                /\ p.name = ExportRows[j][1]
                /\ \A s \in sessions : s.project_id # p.id

\* C23: get_status, get_active, get_elapsed_seconds, get_sessions_for_project,
\* the three breakdowns, the get_project_time queries and export_to_csv leave
\* the tables as they are: in every step that ends with one of them as the
\* last operation called, no project, session or config row (and no id
\* counter) changes.
C23_ReadOnly == [][last'.op \in ReadOnlyOps => UNCHANGED store]_vars

\* C23 witness: a query has been called while a session is open, a session
\* has ended, and the config entry is set.
C23_Witness ==
    /\ last.op \in ReadOnlyOps
    /\ OpenSessions(sessions) # {}
    /\ sessions # OpenSessions(sessions)
    /\ config # {}

\* A step of Session.start that returned a session id.
SessionStartOk ==
    /\ last'.op = "start"
    /\ last'.result = "ok"
    /\ nextSessionId' = nextSessionId + 1

\* C24: Session.start called while a session is open changes no stored
\* session; it adds one row with a NULL end_time, so one more session is
\* open than before, two at least.
C24_DirectStartKeepsOpen ==
    [][(OpenSessions(sessions) # {} /\ SessionStartOk)
       => /\ \E new \in sessions' : /\ new.id = nextSessionId
                                      /\ new.end_time = NULL
                                      /\ new \notin sessions
                                      /\ sessions' = sessions \cup {new}
          /\ NumOpen(sessions') = NumOpen(sessions) + 1
          /\ NumOpen(sessions') >= 2]_vars

\* C24 witness: Session.start has returned and two sessions are open.
C24_Witness ==
    /\ last = Result("start", "ok")
    /\ NumOpen(sessions) = 2

\* C25: Session.start(project_id) for an id that no project row has ends in
\* the project-not-found error and leaves the sessions, the config table and
\* everything else stored as they were.
C25_StartUnknownProject ==
    [][\A project_id \in 1..MaxProjects :
          (get_by_id(projects, project_id) = {} /\ SessionStart(project_id))
          => (last' = Result("start", "project_not_found")
              /\ UNCHANGED store)]_vars

\* C25 witness: Session.start has failed with project-not-found after an
\* earlier start had saved a project id, and the project was deleted.
C25_Witness ==
    /\ last = Result("start", "project_not_found")
    /\ config # {}
    /\ projects = {}

\* C26: Session.stop() with sessions open writes the clock reading into the
\* end_time of one open session that no open session was started after,
\* returns True and changes no other row; with no session open it returns
\* False and changes nothing.
C26_StopActive ==
    [][SessionStopActive
       => IF OpenSessions(sessions) = {}
          THEN last' = Result("stop", "false") /\ UNCHANGED store
          ELSE /\ last' = Result("stop", "true")
               /\ \E a \in OpenSessions(sessions) :
                     /\ \A o \in OpenSessions(sessions) :
                           o.start_time <= a.start_time
                     /\ sessions' = (sessions \ {a})
                                     \cup {[a EXCEPT !.end_time = now]}
               /\ UNCHANGED <<projects, nextProjectId, nextSessionId,
                              config>>]_vars

\* C26 witness: Session.stop() has returned True, leaving the earlier one of
\* two open sessions open.
C26_Witness ==
    /\ last = Result("stop", "true")
    /\ \E a, o \in sessions : /\ a.end_time # NULL
                               /\ o.end_time = NULL
                               /\ o.start_time < a.start_time

\* The config rows stored under the key current_project_id.
CurrentProjectRows == {c \in config : c.key = KEY_CURRENT_PROJECT}

\* A step of Session.start or of start_project that created a session.
AnyStartOk ==
    /\ last'.op \in {"start", "start_project"}
    /\ last'.result = "ok"
    /\ nextSessionId' = nextSessionId + 1

\* C27: after every Session.start(p) that succeeds, called directly or by
\* start_project, the config table has exactly one row with the key
\* current_project_id, and its value is p (as decimal text), whatever was
\* stored under the key before.
C27_CurrentProjectSaved ==
    [][AnyStartOk
       => \E c \in config' :
             /\ CurrentProjectRows' = {c}
             /\ IsDigits(c.value)
             /\ NumberOf(c.value)
                  = RowOf(sessions', nextSessionId).project_id]_vars

\* C27 witness: a start has overwritten the entry another start had stored:
\* the entry names the project of the newest session and an older session
\* belongs to another project.
C27_Witness ==
    /\ last.op \in {"start", "start_project"}
    /\ last.result = "ok"
    /\ \E c \in CurrentProjectRows, s \in sessions :
          /\ NumberOf(c.value) = LastStarted.project_id
          /\ s.project_id # LastStarted.project_id

\* The entries of a listing lst are those of the dict B, each once, and no
\* entry is listed before one with more seconds.
NonIncreasing(lst, B) ==
    /\ Len(lst) = Cardinality(B)
    /\ {lst[i] : i \in 1..Len(lst)} = B
    /\ \A i, j \in 1..Len(lst) : i < j => lst[i].seconds >= lst[j].seconds

\* C28: in every order in which get_daily_breakdown (for any date),
\* get_weekly_breakdown and get_total_breakdown may list their projects, the
\* seconds of the entries never increase from one entry to the next.
C28_BreakdownOrder ==
    /\ \A date \in {DayStart(t) : t \in Instants} :
          LET B == get_daily_breakdown(projects, sessions, date, now)
          IN  \A lst \in dict_orders(B) : NonIncreasing(lst, B)
    /\ LET B == get_weekly_breakdown(projects, sessions, now)
       IN  \A lst \in dict_orders(B) : NonIncreasing(lst, B)
    /\ LET B == get_total_breakdown(projects, sessions, now)
       IN  \A lst \in dict_orders(B) : NonIncreasing(lst, B)

\* C28 witness: get_total_breakdown has been called with two projects of
\* different totals, the project created second having the larger one.
C28_Witness ==
    /\ last = Result("get_total_breakdown", "ok")
    /\ \E r, x \in get_total_breakdown(projects, sessions, now) :
          r.project_id > x.project_id /\ r.seconds > x.seconds

\* Project name owns every open session, and there is one.
OwnsTheOpenSession(name) ==
    /\ OpenSessions(sessions) # {}
    /\ \E p \in get_by_name(projects, name) :
          \A s \in OpenSessions(sessions) : s.project_id = p.id

\* C29: when the project that owns the only open session is deleted, no
\* session is open in the state the delete leaves (get_active finds no row)
\* and get_status returns 'idle' there; and a stop_project called right after
\* a delete that left no session open returns 'no_active_session' and
\* changes nothing.
C29_DeleteOwnerGoesIdle ==
    /\ [][\A name \in Names :
            (OwnsTheOpenSession(name) /\ DeleteProject(name))
            => /\ MostRecentOpen(sessions') = {}
               /\ \A r \in StatusNow' : r.status = "idle"]_vars
    /\ [][(/\ last = Result("delete", "ok")
           /\ MostRecentOpen(sessions) = {}
           /\ StopTracking)
          => (last' = Result("stop_project", "no_active_session")
              /\ UNCHANGED store)]_vars

\* C29 witness: a delete has succeeded, nothing is open, and the deleted
\* project had a session: a session id has been given out and no session is
\* stored.
C29_Witness ==
    /\ last = Result("delete", "ok")
    /\ nextSessionId = 2
    /\ sessions = {}
    /\ config # {}

\* The one open session, when exactly one is open.
TheOpenSession == CHOOSE s \in OpenSessions(sessions) : TRUE

\* start_project(name) returns normally while the only open session is one
\* of the project called name.
C30_Case(name) ==
    /\ NumOpen(sessions) = 1
    /\ \E p \in get_by_name(projects, name) : TheOpenSession.project_id = p.id
    /\ StartTracking(name)
    /\ last' = Result("start_project", "ok")

\* The open session is kept as an ended row and one new row, open and of the
\* same project, is added.
C30_Restarted ==
    /\ Cardinality(sessions') = Cardinality(sessions) + 1
    /\ sessions' \ {RowOf(sessions', nextSessionId)}
         = (sessions \ {TheOpenSession})
             \cup {RowOf(sessions', TheOpenSession.id)}
    /\ RowOf(sessions', TheOpenSession.id).start_time
         = TheOpenSession.start_time
    /\ RowOf(sessions', TheOpenSession.id).end_time # NULL
    /\ nextSessionId \notin SessionIds(sessions)
    /\ RowOf(sessions', nextSessionId).project_id = TheOpenSession.project_id
    /\ OpenSessions(sessions') = {RowOf(sessions', nextSessionId)}

C30_StartAfterEnd ==
    RowOf(sessions', nextSessionId).start_time
        >= RowOf(sessions', TheOpenSession.id).end_time

\* C30 as stated: start_project(P) while P's own session is the open one ends
\* that session and creates a new session for P, so the number of sessions
\* grows by one, and the new session's start_time is >= the old session's
\* end_time.
C30_Original ==
    [][\A name \in Names :
         C30_Case(name) => (C30_Restarted /\ C30_StartAfterEnd)]_vars

\* C30 amended: the old session is ended and a new one created in every
\* case; the new start_time is >= the old end_time given that the readings
\* of the clock never decrease.
C30_RestartNotResume ==
    [][\A name \in Names :
         C30_Case(name)
         => /\ C30_Restarted
            /\ ~clockBack' => C30_StartAfterEnd]_vars

\* C30 witness: right after a start_project, with a clock that never stepped
\* back, two sessions of one project: the first ended, the second open and
\* started no earlier than the first ended, some time after the first began.
C30_Witness ==
    /\ last = Result("start_project", "ok")
    /\ ~clockBack
    /\ Cardinality(sessions) = 2
    /\ OpenSessions(sessions) = {LastStarted}
    /\ \E s \in sessions :
          /\ s.id # LastStarted.id
          /\ s.project_id = LastStarted.project_id
          /\ s.end_time # NULL
          /\ s.start_time < s.end_time
          /\ s.end_time <= LastStarted.start_time

\* Every session began no later than now and, if ended, ended no earlier
\* than it began.
SessionsInOrder ==
    \A s \in sessions :
        /\ s.start_time <= now
        /\ s.end_time # NULL => s.end_time >= s.start_time

\* The seconds breakdown B reports for a project, 0 when it has no entry.
SecondsIn(B, project_id) ==
    IF \E r \in B : r.project_id = project_id
    THEN (CHOOSE r \in B : r.project_id = project_id).seconds
    ELSE 0

\* C31: in every state where each session has end_time >= start_time and
\* start_time <= now, for every project the seconds of
\* get_daily_breakdown(today) are <= those of get_weekly_breakdown(), which
\* are <= those of get_total_breakdown(), a project without an entry
\* counting as 0; and likewise get_project_time_today <=
\* get_project_time_week <= get_project_time_total.
C31_Nested ==
    SessionsInOrder =>
        LET daily == get_daily_breakdown(projects, sessions, now, now)
            weekly == get_weekly_breakdown(projects, sessions, now)
            total == get_total_breakdown(projects, sessions, now)
        IN  \A p \in projects :
                /\ SecondsIn(daily, p.id) <= SecondsIn(weekly, p.id)
                /\ SecondsIn(weekly, p.id) <= SecondsIn(total, p.id)
                /\ get_project_time_today(sessions, p.id, now)
                     <= get_project_time_week(sessions, p.id, now)
                /\ get_project_time_week(sessions, p.id, now)
                     <= get_project_time_total(sessions, p.id, now)

\* C31 witness: the sessions are in order and some project has a session
\* open since earlier today, one from earlier in the week or before, and
\* more seconds in the total breakdown than in today's.
C31_Witness ==
    /\ SessionsInOrder
    /\ \E p \in projects :
          LET daily == get_daily_breakdown(projects, sessions, now, now)
              total == get_total_breakdown(projects, sessions, now)
          IN  /\ 0 < SecondsIn(daily, p.id)
              /\ SecondsIn(daily, p.id) < SecondsIn(total, p.id)
              /\ \E s \in OpenSessions(sessions) : s.project_id = p.id

\* C32: (SpecPoll) get_status always completes with an 'idle' or a
\* 'tracking' result, also when a delete, start_project or stop_project of
\* another process runs between its three reads; it never fails because the
\* project of the open session is gone.
C32_StatusCompletes ==
    last.op = "get_status" => last.result \in {"idle", "tracking"}
====
